---- MODULE Spec2Model ----
(***************************************************************************)
(* Model of the PN532 driver of nfcpy (src/nfc/clf/pn532.py): the chipset  *)
(* command encoders and decoders (class Chipset), the device lifecycle     *)
(* (Device.__init__, Device.close, init) and the register-level Type 1 Tag *)
(* exchange (Device._tt1_send_cmd_recv_rsp).                               *)
(*                                                                         *)
(* The transport, the command primitive of the base chipset class and the  *)
(* chip itself are the environment: every command the driver issues is     *)
(* answered by a reply drawn from a small set.                             *)
(***************************************************************************)
EXTENDS Integers, Sequences, FiniteSets, TLC

VARIABLES
    pc,        \* position of the driver: which statement runs next
    ttype,     \* transport.TYPE
    mifreg,    \* content of the chip's Multi Interface register 0x6103
    transport_baudrate,  \* transport.baudrate, the local side's rate
    chipBaud,  \* the rate the chip's serial interface runs at
    ciu,       \* last values written to CIU_ManualRCV and CIU_BitFraming
    wire,      \* frames written to the transport by the current operation
    arg,       \* arguments (and chip answers) of the current operation
    rx,        \* local `data` of _tt1_send_cmd_recv_rsp after line 324
    ret        \* how the last operation ended: [op, out, val]

vars == <<pc, ttype, mifreg, transport_baudrate, chipBaud, ciu, wire, arg, rx, ret>>

(***************************************************************************)
(* Bounds of the model.                                                    *)
(***************************************************************************)
MaxWakeupLen == 2   \* wakeup_enable sequences with repetition, any order
MaxRawFifo == 3     \* arbitrary FIFO contents up to this many bytes
MaxPayload == 2     \* tag answers of up to this many data bytes before the CRC
MaxPollReply == 6   \* InAutoPoll replies up to this many bytes

(***************************************************************************)
(* Integers as bit patterns.                                               *)
(***************************************************************************)
Pow2(n) == 2 ^ n

Bit(x, i) == (x \div Pow2(i)) % 2

RECURSIVE BitAnd(_, _)
BitAnd(a, b) ==
    IF a = 0 \/ b = 0 THEN 0
    ELSE (a % 2) * (b % 2) + 2 * BitAnd(a \div 2, b \div 2)

RECURSIVE BitOr(_, _)
BitOr(a, b) ==
    IF a = 0 THEN b
    ELSE IF b = 0 THEN a
    ELSE (IF a % 2 = 1 \/ b % 2 = 1 THEN 1 ELSE 0) + 2 * BitOr(a \div 2, b \div 2)

RECURSIVE BitXor(_, _)
BitXor(a, b) ==
    IF a = 0 THEN b
    ELSE IF b = 0 THEN a
    ELSE ((a + b) % 2) + 2 * BitXor(a \div 2, b \div 2)

RECURSIVE PopCount(_)
PopCount(x) == IF x = 0 THEN 0 ELSE (x % 2) + PopCount(x \div 2)

Range(s) == {s[i] : i \in 1..Len(s)}

Reverse(s) == [i \in 1..Len(s) |-> s[Len(s) + 1 - i]]

\* Python's s[a:b] for 0 <= a, on a sequence: clipped to the length.
Slice(s, a, b) ==
    LET hi == IF b < Len(s) THEN b ELSE Len(s)
    IN  IF hi <= a THEN <<>> ELSE [i \in 1..(hi - a) |-> s[a + i]]

SeqsUpTo(S, n) == UNION {[1..k -> S] : k \in 0..n}

(***************************************************************************)
(* Frames on the transport.  A command frame carries the opcode and the    *)
(* payload handed to Chipset.command; every written frame is stamped with  *)
(* the local rate it was written at and the rate the chip was listening at.*)
(***************************************************************************)
Cmd(op, data) == [k |-> "cmd", op |-> op, data |-> data]

ACK == [k |-> "ack", op |-> 0, data |-> <<0, 0, 255, 0, 255, 0>>]

Raw(data) == [k |-> "raw", op |-> 0, data |-> data]

Stamp(f) ==
    [k |-> f.k, op |-> f.op, data |-> f.data, rate |-> transport_baudrate, chip |-> chipBaud]

Written(frames) == [i \in 1..Len(frames) |-> Stamp(frames[i])]

\* What the chip may answer to a command: success or an error (error frame,
\* nonzero status, no answer in time), which Chipset.command raises.
Replies == {"ok", "err"}

Ret(op, out, val) == [op |-> op, out |-> out, val |-> val]

NoArg == [op |-> "none"]

(***************************************************************************)
(* class Chipset.  Each method is an operator from its arguments and the   *)
(* chip's answer to how it ends (out), what it returns (val) and the       *)
(* frames it has written (frames).                                         *)
(***************************************************************************)
Done(out, val, frames) == [out |-> out, val |-> val, frames |-> frames]

\* br of set_serial_baudrate.
BR == <<9600, 19200, 38400, 57600, 115200, 230400, 460800, 921600, 1288000>>

\* tuple.index: the 0-based position of the first equal element.
Index(t, x) == (CHOOSE i \in 1..Len(t) : t[i] = x /\ \A j \in 1..(i - 1) : t[j] # x) - 1

set_serial_baudrate_index1(baudrate, reply) ==
    IF baudrate \notin Range(BR) THEN Done("ValueError", <<>>, <<>>)
    ELSE IF reply = "err"
         THEN Done("ChipsetError", <<>>, <<Cmd(16, <<Index(BR, baudrate) + 1>>)>>)
         ELSE Done("ok", <<>>, <<Cmd(16, <<Index(BR, baudrate) + 1>>), ACK>>)

\* br.index raises ValueError before command is called; command raises on a
\* failure before the ACK is written.
set_serial_baudrate(baudrate, reply) ==
    IF baudrate \notin Range(BR) THEN Done("ValueError", <<>>, <<>>)
    ELSE IF reply = "err"
         THEN Done("ChipsetError", <<>>, <<Cmd(16, <<Index(BR, baudrate)>>)>>)
         ELSE Done("ok", <<>>, <<Cmd(16, <<Index(BR, baudrate)>>), ACK>>)

\* mode is 1 + position in ("normal", "virtual", "wired", "dual").
sam_configuration(mode, timeout, irq) ==
    Cmd(20, <<Index(<<"normal", "virtual", "wired", "dual">>, mode) + 1, timeout,
              IF irq THEN 1 ELSE 0>>)

power_down_wakeup_src == <<"INT0", "INT1", "rfu", "RF", "HSU", "SPI", "GPIO", "I2C">>

\* The loop of power_down over enumerate(power_down_wakeup_src), from
\* position i (0-based) on.
RECURSIVE wakeup_loop(_, _, _)
wakeup_loop(i, wakeup_set, wakeup_enable) ==
    IF i >= Len(power_down_wakeup_src) THEN wakeup_set
    ELSE wakeup_loop(i + 1,
                     IF power_down_wakeup_src[i + 1] \in Range(wakeup_enable)
                     THEN BitOr(wakeup_set, Pow2(i)) ELSE wakeup_set,
                     wakeup_enable)

\* The same loop run over the caller's sequence: bit i for its i-th element.
RECURSIVE wakeup_loop_by_position(_, _, _)
wakeup_loop_by_position(i, wakeup_set, wakeup_enable) ==
    IF i >= Len(wakeup_enable) THEN wakeup_set
    ELSE wakeup_loop_by_position(i + 1,
                     IF wakeup_enable[i + 1] \in Range(power_down_wakeup_src)
                     THEN BitOr(wakeup_set, Pow2(i)) ELSE wakeup_set,
                     wakeup_enable)

power_down_by_position(wakeup_enable, generate_irq, reply, data) ==
    LET cmd_data == <<wakeup_loop_by_position(0, 0, wakeup_enable),
                      IF generate_irq THEN 1 ELSE 0>>
    IN  IF reply = "err" THEN Done("ChipsetError", <<>>, <<Cmd(22, cmd_data)>>)
        ELSE IF data[1] # 0 THEN Done("ChipsetError", data, <<Cmd(22, cmd_data)>>)
        ELSE Done("ok", <<>>, <<Cmd(22, cmd_data)>>)

power_down(wakeup_enable, generate_irq, reply, data) ==
    LET cmd_data == <<wakeup_loop(0, 0, wakeup_enable),
                      IF generate_irq THEN 1 ELSE 0>>
    IN  IF reply = "err" THEN Done("ChipsetError", <<>>, <<Cmd(22, cmd_data)>>)
        ELSE IF data[1] # 0 THEN Done("ChipsetError", data, <<Cmd(22, cmd_data)>>)
        ELSE Done("ok", <<>>, <<Cmd(22, cmd_data)>>)

\* The decode loop of in_auto_poll written with range(data.pop(0)): k entries
\* left, data as mutated by the pops so far.  data[:data.pop(0)] pops the
\* length and slices what is left, clipped; the slice removes nothing.
RECURSIVE in_auto_poll_range_loop(_, _, _)
in_auto_poll_range_loop(k, data, targets) ==
    IF k = 0 THEN [out |-> "ok", val |-> targets]
    ELSE IF Len(data) < 2 THEN [out |-> "IndexError", val |-> <<>>]
    ELSE LET tg_type == data[1]
             rest == Slice(data, 2, Len(data))
             tg_data == Slice(rest, 0, data[2])
         IN  in_auto_poll_range_loop(k - 1, rest, Append(targets, <<tg_type, tg_data>>))

in_auto_poll_decode_range(data) ==
    IF Len(data) = 0 THEN [out |-> "IndexError", val |-> <<>>]
    ELSE in_auto_poll_range_loop(data[1], Slice(data, 1, Len(data)), <<>>)

\* Lines 136-141.  data.pop(0) on an empty bytearray raises IndexError;
\* otherwise it is an int, and `for i in <int>` raises TypeError before the
\* loop body runs once.
in_auto_poll_decode(data) ==
    IF Len(data) = 0 THEN [out |-> "IndexError", val |-> <<>>]
    ELSE [out |-> "TypeError", val |-> <<>>]

in_auto_poll(poll_nr, period, types, reply, data) ==
    IF Len(types) > 15 THEN Done("AssertionError", <<>>, <<>>)
    ELSE LET frames == <<Cmd(96, <<poll_nr, period>> \o types)>>
         IN  IF reply = "err" THEN Done("ChipsetError", <<>>, frames)
             ELSE Done(in_auto_poll_decode(data).out, in_auto_poll_decode(data).val, frames)

tg_init_as_target_no_felica_check(mode_is_int, mode, mifare_params, felica_params, nfcid3t, general_bytes, historical_bytes, reply, rsp) ==
    IF ~(mode_is_int /\ BitAnd(mode, 248) = 0) THEN Done("AssertionError", <<>>, <<>>)
    ELSE IF Len(mifare_params) # 6 THEN Done("AssertionError", <<>>, <<>>)
    ELSE IF Len(nfcid3t) # 10 THEN Done("AssertionError", <<>>, <<>>)
    ELSE IF mode \notin 0..255 THEN Done("ValueError", <<>>, <<>>)
    ELSE LET data == <<mode>> \o mifare_params \o felica_params \o nfcid3t
                     \o <<Len(general_bytes)>> \o general_bytes
                     \o <<Len(historical_bytes)>> \o historical_bytes
         IN  IF reply = "err" THEN Done("ChipsetError", <<>>, <<Cmd(140, data)>>)
             ELSE Done("ok", rsp, <<Cmd(140, data)>>)

\* Lines 143-153.  The four asserts run before data is built; chr(mode)
\* raises ValueError outside 0..255.  The result is what the chip answered
\* to the command (rsp).
tg_init_as_target(mode_is_int, mode, mifare_params, felica_params, nfcid3t, general_bytes, historical_bytes, reply, rsp) ==
    IF ~(mode_is_int /\ BitAnd(mode, 248) = 0) THEN Done("AssertionError", <<>>, <<>>)
    ELSE IF Len(mifare_params) # 6 THEN Done("AssertionError", <<>>, <<>>)
    ELSE IF Len(felica_params) # 18 THEN Done("AssertionError", <<>>, <<>>)
    ELSE IF Len(nfcid3t) # 10 THEN Done("AssertionError", <<>>, <<>>)
    ELSE IF mode \notin 0..255 THEN Done("ValueError", <<>>, <<>>)
    ELSE LET data == <<mode>> \o mifare_params \o felica_params \o nfcid3t
                     \o <<Len(general_bytes)>> \o general_bytes
                     \o <<Len(historical_bytes)>> \o historical_bytes
         IN  IF reply = "err" THEN Done("ChipsetError", <<>>, <<Cmd(140, data)>>)
             ELSE Done("ok", rsp, <<Cmd(140, data)>>)

(***************************************************************************)
(* The base layer's helpers used by the Type 1 Tag exchange.               *)
(***************************************************************************)
\* One step of the CRC register for data bit b (polynomial 0x8408, shifted
\* right, ISO/IEC 14443-3).
crc_bit(reg, b) ==
    LET bit == (reg + b) % 2
        r == reg \div 2
    IN  IF bit = 1 THEN BitXor(r, 33800) ELSE r

\* The eight data bits of one octet, least significant first.
crc_octet(reg, octet) ==
    crc_bit(crc_bit(crc_bit(crc_bit(crc_bit(crc_bit(crc_bit(crc_bit(reg,
        Bit(octet, 0)), Bit(octet, 1)), Bit(octet, 2)), Bit(octet, 3)),
        Bit(octet, 4)), Bit(octet, 5)), Bit(octet, 6)), Bit(octet, 7))

\* The octets data[i..size] shifted into reg.  (The test on the register
\* has TLC evaluate it before it goes on to the next octet.)
RECURSIVE crc_from(_, _, _, _)
crc_from(data, i, size, reg) ==
    IF i > size \/ reg \notin 0..65535 THEN reg
    ELSE crc_from(data, i + 1, size, crc_octet(reg, data[i]))

calculate_crc(data, size, reg) == crc_from(data, 1, size, reg)

\* CRC_B: register preset to 0xFFFF, result complemented, low byte first.
crc_b(data, size) == 65535 - calculate_crc(data, size, 65535)

add_crc_b(data) ==
    LET crc == crc_b(data, Len(data))
    IN  data \o <<crc % 256, crc \div 256>>

\* The last two bytes against the CRC_B of the bytes before them; with
\* fewer than two bytes there is nothing to index and the call raises.
check_crc_b(data) ==
    IF Len(data) < 2 THEN [raised |-> TRUE, ok |-> FALSE]
    ELSE [raised |-> FALSE,
          ok |-> crc_b(data, Len(data) - 2) = data[Len(data) - 1] + 256 * data[Len(data)]]

\* read_register(*args): one value per register; a single register yields the
\* value itself, not a list (lines 168, 193 and 320 use it as an int).
read_register(values) ==
    IF Len(values) > 1 THEN [list |-> TRUE, v |-> values]
    ELSE [list |-> FALSE, v |-> values[1]]

(***************************************************************************)
(* Lines 323-324: the received FIFO bytes to the data bytes.               *)
(***************************************************************************)
\* "{:08b}".format(octet): eight binary digits, most significant first.
format08b(octet) == [i \in 1..8 |-> Bit(octet, 8 - i)]

RECURSIVE join(_)
join(ss) == IF ss = <<>> THEN <<>> ELSE Head(ss) \o join(Tail(ss))

\* int(s, 2) for a nonempty digit string s.
RECURSIVE int2(_)
int2(s) == IF Len(s) = 0 THEN 0 ELSE 2 * int2(SubSeq(s, 1, Len(s) - 1)) + s[Len(s)]

\* range(0, stop, 9) as the sequence of its values.
range9(stop) == IF stop <= 0 THEN <<>> ELSE [k \in 1..((stop + 8) \div 9) |-> 9 * (k - 1)]

\* The same two lines with the digits of each octet left in natural order.
reconstruct_unreversed(fifo) ==
    LET data == join([j \in 1..Len(fifo) |-> format08b(fifo[j])])
        starts == range9(Len(data) - 8)
    IN  [k \in 1..Len(starts) |-> int2(Reverse(Slice(data, starts[k], starts[k] + 8)))]

\* The same two lines without the second reversal, of the 8 digits cut out.
reconstruct_no_second_reversal(fifo) ==
    LET data == join([j \in 1..Len(fifo) |-> Reverse(format08b(fifo[j]))])
        starts == range9(Len(data) - 8)
    IN  [k \in 1..Len(starts) |-> int2(Slice(data, starts[k], starts[k] + 8))]

reconstruct(fifo) ==
    LET data == join([j \in 1..Len(fifo) |-> Reverse(format08b(fifo[j]))])
        starts == range9(Len(data) - 8)
    IN  [k \in 1..Len(starts) |-> int2(Reverse(Slice(data, starts[k], starts[k] + 8)))]

(***************************************************************************)
(* The tag's side of the exchange: what the FIFO holds after a tag has     *)
(* answered `payload` with parity handling switched off in the receiver.   *)
(***************************************************************************)
ParityModes == {"zero", "one", "odd"}

ParityBit(octet, mode) ==
    IF mode = "zero" THEN 0
    ELSE IF mode = "one" THEN 1
    ELSE (PopCount(octet) + 1) % 2

\* Each byte as 8 data bits least significant first and one parity bit, the
\* bit stream packed into bytes least significant bit first, zero padded.
Pack9(payload, mode) ==
    LET stream == join([k \in 1..Len(payload) |->
                          [i \in 1..9 |-> IF i <= 8 THEN Bit(payload[k], i - 1)
                                          ELSE ParityBit(payload[k], mode)]])
        nbytes == (Len(stream) + 7) \div 8
        at(n) == IF n <= Len(stream) THEN stream[n] ELSE 0
    IN  [j \in 1..nbytes |->
           at(8*j - 7) + 2*at(8*j - 6) + 4*at(8*j - 5) + 8*at(8*j - 4)
           + 16*at(8*j - 3) + 32*at(8*j - 2) + 64*at(8*j - 1) + 128*at(8*j)]

\* payload with bit `flip` (1..16) of its two trailing bytes inverted; 0: as is.
FlipCrcBit(payload, flip) ==
    IF flip = 0 THEN payload
    ELSE LET n == Len(payload) - 2 + ((flip + 7) \div 8)
             b == (flip - 1) % 8
         IN  [payload EXCEPT ![n] = BitXor(payload[n], Pow2(b))]

(***************************************************************************)
(* Device._tt1_send_cmd_recv_rsp.  The chip's part in one register-level   *)
(* exchange is an answer [fail, fifo, sent, parity]: fail names the        *)
(* chipset command answered with an error (0: none; 1: the write batch of  *)
(* line 314; 2: the write of line 319; 3: the read of line 320; 4: the     *)
(* read of line 322) and fifo is the content of the receive FIFO.          *)
(* sent and parity record what a tag transmitted to produce fifo.          *)
(***************************************************************************)
Answer(fail, fifo, sent, parity) ==
    [fail |-> fail, fifo |-> fifo, sent |-> sent, parity |-> parity]

TT(out, val, frames, rxv, ciuv) ==
    [out |-> out, val |-> val, frames |-> frames, rx |-> rxv, ciu |-> ciuv]

\* The chip's registers after a successful WriteRegister of `pairs`, in order.
RECURSIVE ApplyWrites(_, _)
ApplyWrites(c, pairs) ==
    IF pairs = <<>> THEN c
    ELSE ApplyWrites(IF Head(pairs)[1] = "CIU_ManualRCV"
                         THEN [c EXCEPT !.ManualRCV = Head(pairs)[2]]
                     ELSE IF Head(pairs)[1] = "CIU_BitFraming"
                         THEN [c EXCEPT !.BitFraming = Head(pairs)[2]]
                     ELSE c,
                     Tail(pairs))

\* Lines 303-313 with parity disabled only after the last byte was sent.
register_write_parity_late(data) ==
    <<<<"CIU_FIFOData", data[1]>>, <<"CIU_BitFraming", 7>>, <<"CIU_Command", 4>>,
      <<"CIU_BitFraming", 0>>>>
    \o join([i \in 1..(Len(data) - 1) |->
               <<<<"CIU_FIFOData", data[i + 1]>>, <<"CIU_Command", 4>>,
                 <<"CIU_Command", 7>>>>])
    \o <<<<"CIU_ManualRCV", 48>>, <<"CIU_Command", 8>>>>

\* Lines 303-313: the batch of register writes for the command bytes `data`.
register_write(data) ==
    <<<<"CIU_FIFOData", data[1]>>, <<"CIU_BitFraming", 7>>, <<"CIU_Command", 4>>,
      <<"CIU_BitFraming", 0>>, <<"CIU_ManualRCV", 48>>>>
    \o join([i \in 1..(Len(data) - 1) |->
               <<<<"CIU_FIFOData", data[i + 1]>>, <<"CIU_Command", 4>>,
                 <<"CIU_Command", 7>>>>])
    \o <<<<"CIU_Command", 8>>>>

\* Lines 320-327 with an empty FIFO answered by an empty result.
tt1_receive_empty_result(ans, sent, c2) ==
    LET R1 == Cmd(6, <<"CIU_FIFOLevel">>)
        fifo_level == read_register(<<Len(ans.fifo)>>).v
        R2 == Cmd(6, [i \in 1..fifo_level |-> "CIU_FIFOData"])
        got == read_register(ans.fifo)
        rec == reconstruct(got.v)
        crc_check == check_crc_b(rec)
    IN  IF ans.fail = 3 THEN TT("ChipsetError", <<>>, sent \o <<R1>>, <<>>, c2)
        ELSE IF fifo_level = 0 THEN TT("ok", <<>>, sent \o <<R1>>, <<>>, c2)
        ELSE IF ans.fail = 4 THEN TT("ChipsetError", <<>>, sent \o <<R1, R2>>, <<>>, c2)
        ELSE IF ~got.list THEN TT("TypeError", <<>>, sent \o <<R1, R2>>, <<>>, c2)
        ELSE IF crc_check.raised THEN TT("IndexError", <<>>, sent \o <<R1, R2>>, rec, c2)
        ELSE IF crc_check.ok = FALSE
             THEN TT("TransmissionError", <<>>, sent \o <<R1, R2>>, rec, c2)
        ELSE TT("ok", Slice(rec, 0, Len(rec) - 2), sent \o <<R1, R2>>, rec, c2)

\* Lines 320-327: the FIFO level, the FIFO bytes, the data bytes, the check.
\* sent are the frames written so far, c2 the registers.  Iterating over the
\* single int that read_register returns for one FIFO byte raises TypeError.
tt1_receive(ans, sent, c2) ==
    LET R1 == Cmd(6, <<"CIU_FIFOLevel">>)
        fifo_level == read_register(<<Len(ans.fifo)>>).v
        R2 == Cmd(6, [i \in 1..fifo_level |-> "CIU_FIFOData"])
        got == read_register(ans.fifo)
        rec == reconstruct(got.v)
        crc_check == check_crc_b(rec)
    IN  IF ans.fail = 3 THEN TT("ChipsetError", <<>>, sent \o <<R1>>, <<>>, c2)
        ELSE IF fifo_level = 0 THEN TT("TimeoutError", <<>>, sent \o <<R1>>, <<>>, c2)
        ELSE IF ans.fail = 4 THEN TT("ChipsetError", <<>>, sent \o <<R1, R2>>, <<>>, c2)
        ELSE IF ~got.list THEN TT("TypeError", <<>>, sent \o <<R1, R2>>, <<>>, c2)
        ELSE IF crc_check.raised THEN TT("IndexError", <<>>, sent \o <<R1, R2>>, rec, c2)
        ELSE IF crc_check.ok = FALSE
             THEN TT("TransmissionError", <<>>, sent \o <<R1, R2>>, rec, c2)
        ELSE TT("ok", Slice(rec, 0, Len(rec) - 2), sent \o <<R1, R2>>, rec, c2)

\* Lines 302-314: the checksum is appended and the batch written.  "sent"
\* says that the batch was accepted and the method goes on.
tt1_transmit(cmd, ans, c0) ==
    LET data == add_crc_b(cmd)
        W1 == Cmd(8, register_write(data))
    IN  IF ans.fail = 1 THEN TT("ChipsetError", <<>>, <<W1>>, <<>>, c0)
        ELSE TT("sent", <<>>, <<W1>>, <<>>, ApplyWrites(c0, W1.data))

\* Lines 319-327: parity is enabled again and the answer received.  sent
\* are the frames written so far, c1 the registers after the batch.
tt1_enable_parity_receive(ans, sent, c1) ==
    LET W2 == Cmd(8, <<<<"CIU_ManualRCV", 32>>>>)
    IN  IF ans.fail = 2 THEN TT("ChipsetError", <<>>, sent \o <<W2>>, <<>>, c1)
        ELSE tt1_receive(ans, sent \o <<W2>>, ApplyWrites(c1, W2.data))

\* Lines 315-318: the commands after whose batch the method sleeps.
tt1_sleeps(cmd) == cmd[1] \in {84, 27}

\* Lines 302-327.
tt1_register_level(cmd, ans, c0) ==
    LET t == tt1_transmit(cmd, ans, c0)
    IN  IF t.out # "sent" THEN t
        ELSE tt1_enable_parity_receive(ans, t.frames, t.ciu)

\* Line 278: in_data_exchange(data, timeout)[0] of the base chipset.
tt1_native(data, chip, c0) ==
    IF chip.reply = "err" THEN TT("ChipsetError", <<>>, <<Cmd(64, <<1>> \o data)>>, <<>>, c0)
    ELSE TT("ok", chip.rsp, <<Cmd(64, <<1>> \o data)>>, <<>>, c0)

\* Lines 273-327.  chip is [reply, rsp, answers]: the answer to an
\* InDataExchange and the answers to the register-level exchanges, in order.
RECURSIVE tt1_send_cmd_recv_rsp(_, _, _, _)
RECURSIVE rseg_loop(_, _, _, _, _, _)
RECURSIVE rseg_loop_partial(_, _, _, _, _, _)
\* Lines 286-288 with a failing block read ending the loop instead of the
\* call: what was read so far is returned.
rseg_loop_partial(block, stop, data, timeout, chip, acc) ==
    IF block >= stop THEN acc
    ELSE LET cmd == <<2, block>> \o Slice(data, 2, Len(data))
             r == tt1_send_cmd_recv_rsp(cmd, timeout, chip, acc.ciu)
             rest == [chip EXCEPT !.answers = Tail(chip.answers)]
         IN  IF r.out # "ok"
             THEN TT("ok", acc.val, acc.frames \o r.frames, r.rx, r.ciu)
             ELSE rseg_loop_partial(block + 1, stop, data, timeout, rest,
                            TT("ok", acc.val \o Slice(r.val, 1, 9),
                               acc.frames \o r.frames, r.rx, r.ciu))

rseg_loop(block, stop, data, timeout, chip, acc) ==
    IF block >= stop THEN acc
    ELSE LET cmd == <<2, block>> \o Slice(data, 2, Len(data))
             r == tt1_send_cmd_recv_rsp(cmd, timeout, chip, acc.ciu)
             rest == [chip EXCEPT !.answers = Tail(chip.answers)]
         IN  IF r.out # "ok"
             THEN TT(r.out, <<>>, acc.frames \o r.frames, r.rx, r.ciu)
             ELSE rseg_loop(block + 1, stop, data, timeout, rest,
                            TT("ok", acc.val \o Slice(r.val, 1, 9),
                               acc.frames \o r.frames, r.rx, r.ciu))

\* Lines 276-289 with READ8 (0x02) taken for a command of the chipset.
tt1_send_cmd_recv_rsp_read8_native(data, timeout, chip, c0) ==
    IF data[1] \in {0, 1, 2, 26, 83, 114} THEN tt1_native(data, chip, c0)
    ELSE IF data[1] = 16
         THEN rseg_loop((data[2] \div 16) * 16, (data[2] \div 16) * 16 + 16, data, timeout,
                        chip, TT("ok", Slice(data, 1, 2), <<>>, <<>>, c0))
    ELSE tt1_register_level(data, Head(chip.answers), c0)

tt1_send_cmd_recv_rsp(data, timeout, chip, c0) ==
    IF data[1] \in {0, 1, 26, 83, 114} THEN tt1_native(data, chip, c0)
    ELSE IF data[1] = 16
         THEN rseg_loop((data[2] \div 16) * 16, (data[2] \div 16) * 16 + 16, data, timeout,
                        chip, TT("ok", Slice(data, 1, 2), <<>>, <<>>, c0))
    ELSE tt1_register_level(data, Head(chip.answers), c0)

(***************************************************************************)
(* Device.old_sense_dep.  The exchange with the remote target, the         *)
(* InJumpForDEP command and mute are the base layer's; each is one frame   *)
(* answered with success or with the error the except clause names.        *)
(***************************************************************************)
Exch(data) == [k |-> "exchange", op |-> 0, data |-> data]

Mute == Cmd(50, <<1, 2>>)

\* in_jump_for_dep('active', br, '', nfcid3, gi) of the base chipset.
in_jump_for_dep_active(br, nfcid3, gi) ==
    Cmd(86, <<1, Index(<<106, 212, 424>>, br),
              (IF Len(nfcid3) > 0 THEN 2 ELSE 0) + (IF Len(gi) > 0 THEN 4 ELSE 0)>>
            \o nfcid3 \o gi)

\* Lines 248-251 and 264-267 with the failed command issued a second time
\* before the field is switched off.
old_sense_dep_retry(has_remote, br, self_bitrate, atr_req, reply, rsp, mute_reply) ==
    LET first == IF has_remote
                 THEN Exch((IF br = 106 THEN <<240>> ELSE <<>>)
                           \o <<Len(atr_req) + 1>> \o atr_req)
                 ELSE in_jump_for_dep_active(br, SubSeq(atr_req, 3, 12),
                                             Slice(atr_req, 16, Len(atr_req)))
    IN  IF reply # "ok"
        THEN IF mute_reply = "ok" THEN Done("ok", <<"None">>, <<first, first, Mute>>)
             ELSE Done("ChipsetError", <<>>, <<first, first, Mute>>)
        ELSE Done("ok", <<rsp, br>>, <<first>>)

\* Lines 242-271.  has_remote: self.remote_target is not None; reply is
\* "ok" or the error raised by exchange (a DigitalError) or by in_jump_for_dep
\* (a Chipset.Error); the result is None (<<"None">>) or the target as
\* <<atr_res, bitrate>>.
old_sense_dep(has_remote, br, self_bitrate, atr_req, reply, rsp, mute_reply) ==
    LET passive == (IF br = 106 THEN <<240>> ELSE <<>>)
                   \o <<Len(atr_req) + 1>> \o atr_req
        gi == Slice(atr_req, 16, Len(atr_req))
        nfcid3 == Slice(atr_req, 2, 12)
        first == IF has_remote THEN Exch(passive)
                 ELSE in_jump_for_dep_active(br, nfcid3, gi)
        atr_res == IF has_remote
                   THEN (IF br = 106 THEN Slice(rsp, 2, Len(rsp))
                         ELSE Slice(rsp, 1, Len(rsp)))
                   ELSE <<213, 1>> \o rsp
        capped == IF has_remote /\ br = 106 /\ BitAnd(atr_res[17], 48) = 48
                  THEN [atr_res EXCEPT ![17] = BitOr(BitAnd(atr_res[17], 207), 32)]
                  ELSE atr_res
        bitrate == IF has_remote THEN self_bitrate ELSE br
    IN  IF reply # "ok"
        THEN IF mute_reply = "ok" THEN Done("ok", <<"None">>, <<first, Mute>>)
             ELSE Done("ChipsetError", <<>>, <<first, Mute>>)
        ELSE IF has_remote /\ br = 106 /\ Len(atr_res) < 17
             THEN Done("IndexError", <<>>, <<first>>)
        ELSE Done("ok", <<capped, bitrate>>, <<first>>)

(***************************************************************************)
(* The inputs the operations are called with and the chip answers with.    *)
(***************************************************************************)
DefaultBaudrate == 115200
HighBaudrate == 921600

\* Multi Interface register contents: 0x04 and 0x44 read as high speed
\* UART under the mask 0x2F, 0x24 and 0x00 do not.
MIFValues == {4, 68, 36, 0}

TransportTypes == {"TTY", "USB"}

BaudInputs == Range(BR) \cup {0, 4800, 921601, 2000000}

\* A set of wakeup sources in table order, and in the opposite order.
InOrder(S) == SelectSeq(power_down_wakeup_src, LAMBDA x : x \in S)

WakeupInputs ==
    SeqsUpTo(Range(power_down_wakeup_src), MaxWakeupLen)
    \cup {InOrder(S) : S \in SUBSET Range(power_down_wakeup_src)}
    \cup {Reverse(InOrder(S)) : S \in SUBSET Range(power_down_wakeup_src)}

PollReplies == SeqsUpTo({0, 1, 2}, MaxPollReply)

PollTypes == {<<32>>, [i \in 1..15 |-> 32], [i \in 1..16 |-> 32]}

Zeros(n) == [i \in 1..n |-> 0]

ModeInputs == {0, 5, 7, 8, 13, 255, 256}

\* What the chip answers to TgInitAsTarget: the mode byte and the
\* initiator's first command.
TargetAnswers == {<<>>, <<1, 2, 3>>, <<5, 212, 0>>}

\* ttf_params handed to _init_as_target: 18 bytes, and 7 (too short).
TtfParams == {[i \in 1..18 |-> i], [i \in 1..7 |-> i]}

DataBytes == {0, 90, 255}

RawBytes == {0, 165, 255}

\* What a tag may transmit: data bytes followed by their CRC_B.
TagAnswers == {add_crc_b(p) : p \in SeqsUpTo(DataBytes, MaxPayload)}

\* The FIFO after a tag answer, as transmitted or with one bit of its
\* checksum inverted on the way, and after a single byte without checksum.
EncodedAnswers ==
    {Answer(0, Pack9(s, m), s, m) :
        s \in {FlipCrcBit(t, f) : t \in TagAnswers, f \in 0..16}
               \cup {<<b>> : b \in DataBytes},
        m \in ParityModes}

RawAnswers == {Answer(0, f, <<>>, "raw") : f \in SeqsUpTo(RawBytes, MaxRawFifo)}

FailingAnswers ==
    {Answer(k, f, <<>>, "raw") : k \in 1..4, f \in {<<>>, <<165, 3>>}}

Answers == EncodedAnswers \cup RawAnswers \cup FailingAnswers

RegisterLevelCommands == {<<2, 0>>, <<84, 1, 127>>, <<27, 3>>}

NativeCommands == {<<0>>, <<1, 8>>, <<26, 8, 1>>, <<83, 8, 1>>, <<114>>}

SegmentCommands == {<<16, 0>>, <<16, 16, 9>>}

\* The tag's answer to a read of `block`: the address and 8 data bytes.
BlockAnswer(block) ==
    LET sent == add_crc_b(<<block>> \o [i \in 1..8 |-> (block + i) % 256])
    IN  Answer(0, Pack9(sent, "odd"), sent, "odd")

\* 16 block reads of segment seg: the first `good` answered, the next one
\* (and any after it) answered by `bad`.
SegmentAnswers(seg, good, bad) ==
    [i \in 1..16 |-> IF i <= good THEN BlockAnswer(16 * seg + i - 1) ELSE bad]

BadAnswers ==
    {Answer(0, <<>>, <<>>, "raw"), Answer(0, <<165, 90, 1>>, <<>>, "raw"),
     Answer(1, <<>>, <<>>, "raw"), Answer(4, <<165, 3>>, <<>>, "raw")}

\* An ATR_REQ: command bytes, NFCID3, DID, BS, BR, PP and one general byte.
AtrReq == <<212, 0>> \o [i \in 1..10 |-> i] \o <<0, 0, 0, 50, 70>>

\* The ATR_RES fields after the two command bytes, with PP byte pp.
AtrResTail(pp) == [i \in 1..10 |-> 16 + i] \o <<0, 0, 0, 14, pp>>

\* What the other side answers to old_sense_dep: in passive mode the frame
\* (start byte at 106 kbps, length, ATR_RES), in active mode the ATR_RES
\* fields; complete with PP 0x32 or 0x02, or cut short.
SenseDepAnswers(has_remote, br) ==
    IF has_remote
    THEN {(IF br = 106 THEN <<240>> ELSE <<>>) \o <<18, 213, 1>> \o AtrResTail(pp) :
             pp \in {50, 2}}
         \cup {(IF br = 106 THEN <<240>> ELSE <<>>) \o <<3, 213, 1>>}
    ELSE {AtrResTail(pp) : pp \in {50, 2}}

SenseDepReplies == {"ok", "TimeoutError", "TransmissionError"}

Chip(reply, rsp, answers) == [reply |-> reply, rsp |-> rsp, answers |-> answers]

Idle == Ret("none", "ok", <<>>)

CiuReset == [ManualRCV |-> 0, BitFraming |-> 0]

(***************************************************************************)
(* The device lifecycle: init, Device.__init__ and Device.close, one       *)
(* action per statement that talks to the chip or the transport.           *)
(***************************************************************************)
Init ==
    /\ pc = "idle"
    /\ ttype \in TransportTypes
    /\ mifreg \in MIFValues
    /\ transport_baudrate = DefaultBaudrate
    /\ chipBaud = DefaultBaudrate
    /\ ciu = CiuReset
    /\ wire = <<>>
    /\ arg = NoArg
    /\ rx = <<>>
    /\ ret = Idle

\* An exception leaves the operation: construction fails, a method of a
\* constructed device returns to its caller.
Raise(op, out, to) ==
    /\ pc' = to
    /\ ret' = Ret(op, out, <<>>)

\* Lines 358-363.
init ==
    /\ pc \in {"idle", "closed", "failed"}
    /\ wire' = IF ttype = "TTY" THEN Written(<<Raw(<<85, 0, 0, 0, 0>>)>>) ELSE <<>>
    /\ pc' = "get_firmware_version"
    /\ arg' = [op |-> "init"]
    /\ ret' = Ret("init", "running", <<>>)
    /\ rx' = <<>>
    /\ UNCHANGED <<ttype, mifreg, transport_baudrate, chipBaud, ciu>>

\* Line 164.
init_get_firmware_version ==
    /\ pc = "get_firmware_version"
    /\ wire' = wire \o Written(<<Cmd(2, <<>>)>>)
    /\ \E reply \in Replies :
          IF reply = "ok"
          THEN pc' = "init_read_register" /\ UNCHANGED ret
          ELSE Raise("init", "ChipsetError", "failed")
    /\ UNCHANGED <<ttype, mifreg, transport_baudrate, chipBaud, ciu, arg, rx>>

\* The test of line 168 without the mask.
is_hsu_unmasked(value) == value = 4

\* The test of lines 168 and 193 on the value read from register 0x6103.
is_hsu(value) == BitAnd(value, 47) = 4

\* Line 168.
init_read_register ==
    /\ pc = "init_read_register"
    /\ wire' = wire \o Written(<<Cmd(6, <<24835>>)>>)
    /\ \E reply \in Replies :
          IF reply = "ok"
          THEN /\ pc' = IF is_hsu(read_register(<<mifreg>>).v)
                        THEN "init_set_serial_baudrate" ELSE "sam_configuration"
               /\ UNCHANGED ret
          ELSE Raise("init", "ChipsetError", "failed")
    /\ UNCHANGED <<ttype, mifreg, transport_baudrate, chipBaud, ciu, arg, rx>>

\* Line 172 with the assignment of line 174 made whatever the chip answers.
init_set_serial_baudrate_unchecked ==
    /\ pc = "init_set_serial_baudrate"
    /\ \E reply \in Replies :
          LET r == set_serial_baudrate(HighBaudrate, reply)
          IN  /\ wire' = wire \o Written(r.frames)
              /\ chipBaud' = IF r.out = "ok" THEN HighBaudrate ELSE chipBaud
              /\ pc' = "init_transport_baudrate"
              /\ UNCHANGED ret
    /\ UNCHANGED <<ttype, mifreg, transport_baudrate, ciu, arg, rx>>

\* Line 172.  The chip runs at the new rate once it has seen the ACK.
init_set_serial_baudrate ==
    /\ pc = "init_set_serial_baudrate"
    /\ \E reply \in Replies :
          LET r == set_serial_baudrate(HighBaudrate, reply)
          IN  /\ wire' = wire \o Written(r.frames)
              /\ IF r.out = "ok"
                 THEN /\ chipBaud' = HighBaudrate
                      /\ pc' = "init_transport_baudrate"
                      /\ UNCHANGED ret
                 ELSE /\ Raise("init", r.out, "failed")
                      /\ UNCHANGED chipBaud
    /\ UNCHANGED <<ttype, mifreg, transport_baudrate, ciu, arg, rx>>

\* Lines 173-174.
init_transport_baudrate ==
    /\ pc = "init_transport_baudrate"
    /\ transport_baudrate' = HighBaudrate
    /\ pc' = "sam_configuration"
    /\ UNCHANGED <<ttype, mifreg, chipBaud, ciu, wire, arg, rx, ret>>

\* Lines 178-190 with mute called before the analog settings for type B.
ConfigSteps_mute_early ==
    <<[at |-> "sam_configuration", frame |-> sam_configuration("normal", 0, FALSE)],
      [at |-> "set_parameters", frame |-> Cmd(18, <<0>>)],
      [at |-> "rf_configuration_02", frame |-> Cmd(50, <<2, 0, 11, 10>>)],
      [at |-> "rf_configuration_04", frame |-> Cmd(50, <<4, 0>>)],
      [at |-> "rf_configuration_05", frame |-> Cmd(50, <<5, 1, 0, 1>>)],
      [at |-> "mute", frame |-> Cmd(50, <<1, 2>>)],
      [at |-> "rf_configuration_0C", frame |-> Cmd(50, <<12, 255, 16, 133>>)]>>

\* Lines 178-190: the configuration commands in program order; mute is the
\* base device's RF field switch-off (RFConfiguration item 1).
ConfigSteps ==
    <<[at |-> "sam_configuration", frame |-> sam_configuration("normal", 0, FALSE)],
      [at |-> "set_parameters", frame |-> Cmd(18, <<0>>)],
      [at |-> "rf_configuration_02", frame |-> Cmd(50, <<2, 0, 11, 10>>)],
      [at |-> "rf_configuration_04", frame |-> Cmd(50, <<4, 0>>)],
      [at |-> "rf_configuration_05", frame |-> Cmd(50, <<5, 1, 0, 1>>)],
      [at |-> "rf_configuration_0C", frame |-> Cmd(50, <<12, 255, 16, 133>>)],
      [at |-> "mute", frame |-> Cmd(50, <<1, 2>>)]>>

init_configure ==
    /\ \E i \in 1..Len(ConfigSteps) :
          /\ pc = ConfigSteps[i].at
          /\ wire' = wire \o Written(<<ConfigSteps[i].frame>>)
          /\ \E reply \in Replies :
                IF reply = "ok"
                THEN IF i < Len(ConfigSteps)
                     THEN pc' = ConfigSteps[i + 1].at /\ UNCHANGED ret
                     ELSE pc' = "returned" /\ ret' = Ret("init", "ok", <<>>)
                ELSE Raise("init", "ChipsetError", "failed")
    /\ UNCHANGED <<ttype, mifreg, transport_baudrate, chipBaud, ciu, arg, rx>>

\* The caller takes the result of the finished call; the device is ready
\* for the next one.
Return ==
    /\ pc = "returned"
    /\ pc' = "ready"
    /\ wire' = <<>>
    /\ arg' = NoArg
    /\ rx' = <<>>
    /\ ret' = Idle
    /\ UNCHANGED <<ttype, mifreg, transport_baudrate, chipBaud, ciu>>

\* Line 193.
close_read_register ==
    /\ pc = "ready"
    /\ wire' = Written(<<Cmd(6, <<24835>>)>>)
    /\ arg' = [op |-> "close"]
    /\ \E reply \in Replies :
          IF reply = "ok"
          THEN /\ pc' = IF is_hsu(read_register(<<mifreg>>).v)
                        THEN "close_set_serial_baudrate" ELSE "close_power_down"
               /\ ret' = Ret("close", "running", <<>>)
          ELSE Raise("close", "ChipsetError", "returned")
    /\ UNCHANGED <<ttype, mifreg, transport_baudrate, chipBaud, ciu, rx>>

\* Line 195 followed at once by line 198: the local side is not switched.
close_set_serial_baudrate_skips_local ==
    /\ pc = "close_set_serial_baudrate"
    /\ \E reply \in Replies :
          LET r == set_serial_baudrate(DefaultBaudrate, reply)
          IN  /\ wire' = wire \o Written(r.frames)
              /\ IF r.out = "ok"
                 THEN /\ chipBaud' = DefaultBaudrate
                      /\ pc' = "close_power_down"
                      /\ UNCHANGED ret
                 ELSE /\ Raise("close", r.out, "returned")
                      /\ UNCHANGED chipBaud
    /\ UNCHANGED <<ttype, mifreg, transport_baudrate, ciu, arg, rx>>

\* Line 195.
close_set_serial_baudrate ==
    /\ pc = "close_set_serial_baudrate"
    /\ \E reply \in Replies :
          LET r == set_serial_baudrate(DefaultBaudrate, reply)
          IN  /\ wire' = wire \o Written(r.frames)
              /\ IF r.out = "ok"
                 THEN /\ chipBaud' = DefaultBaudrate
                      /\ pc' = "close_transport_baudrate"
                      /\ UNCHANGED ret
                 ELSE /\ Raise("close", r.out, "returned")
                      /\ UNCHANGED chipBaud
    /\ UNCHANGED <<ttype, mifreg, transport_baudrate, ciu, arg, rx>>

\* Lines 196-197.
close_transport_baudrate ==
    /\ pc = "close_transport_baudrate"
    /\ transport_baudrate' = DefaultBaudrate
    /\ pc' = "close_power_down"
    /\ UNCHANGED <<ttype, mifreg, chipBaud, ciu, wire, arg, rx, ret>>

\* Line 198.
close_power_down ==
    /\ pc = "close_power_down"
    /\ \E reply \in Replies, status \in {0, 1} :
          LET r == power_down(<<"I2C", "SPI", "HSU">>, FALSE, reply, <<status>>)
          IN  /\ wire' = wire \o Written(r.frames)
              /\ IF r.out = "ok"
                 THEN pc' = "closed" /\ ret' = Ret("close", "ok", <<>>)
                 ELSE Raise("close", r.out, "returned")
    /\ UNCHANGED <<ttype, mifreg, transport_baudrate, chipBaud, ciu, arg, rx>>

(***************************************************************************)
(* Operations of a constructed device.                                     *)
(***************************************************************************)
\* One call of _tt1_send_cmd_recv_rsp with the chip answering as `chip`,
\* for the commands that run without a wait: the commands of the chipset,
\* READ8 and RSEG.
Exchange(data, timeout, chip) ==
    \E r \in {tt1_send_cmd_recv_rsp(data, timeout, chip, ciu)} :
        /\ wire' = Written(r.frames)
        /\ ciu' = r.ciu
        /\ rx' = r.rx
        /\ ret' = Ret("tt1", r.out, r.val)
        /\ arg' = [op |-> "tt1", data |-> data, timeout |-> timeout, chip |-> chip]
        /\ pc' = "returned"
        /\ UNCHANGED <<ttype, mifreg, transport_baudrate, chipBaud>>

\* Lines 302-314 of WRITE-E8 and WRITE-NE8: the batch is written; when the
\* chip accepted it the method sleeps (lines 315-318) with parity disabled.
Transmit(data, timeout, reply) ==
    \E t \in {tt1_transmit(data, Answer(IF reply = "ok" THEN 0 ELSE 1, <<>>, <<>>, "raw"),
                            ciu)} :
        /\ wire' = Written(t.frames)
        /\ ciu' = t.ciu
        /\ rx' = <<>>
        /\ IF t.out = "sent"
           THEN /\ pc' = "time_sleep"
                /\ ret' = Ret("tt1", "running", <<>>)
                /\ arg' = [op |-> "tt1", data |-> data, timeout |-> timeout,
                           chip |-> Chip("ok", <<>>, <<>>)]
           ELSE /\ pc' = "returned"
                /\ ret' = Ret("tt1", t.out, t.val)
                /\ arg' = [op |-> "tt1", data |-> data, timeout |-> timeout,
                           chip |-> Chip("ok", <<>>, <<Answer(1, <<>>, <<>>, "raw")>>)]
        /\ UNCHANGED <<ttype, mifreg, transport_baudrate, chipBaud>>

\* Lines 291-327: READ8, WRITE-E8, WRITE-NE8.  READ8 runs through; the two
\* write commands run up to their wait.
tt1_register_level_exchange ==
    /\ pc = "ready"
    /\ \E data \in RegisterLevelCommands :
          IF tt1_sleeps(data)
          THEN \E reply \in Replies : Transmit(data, 100, reply)
          ELSE \E ans \in Answers : Exchange(data, 100, Chip("ok", <<>>, <<ans>>))

\* Lines 315-327 of WRITE-E8 and WRITE-NE8: the wait of 6 ms or 3 ms is
\* over, parity is enabled again and the answer received.
tt1_time_sleep ==
    /\ pc = "time_sleep"
    /\ \E ans \in {a \in Answers : a.fail # 1} :
          \E r \in {tt1_enable_parity_receive(ans, <<>>, ciu)} :
             /\ wire' = wire \o Written(r.frames)
             /\ ciu' = r.ciu
             /\ rx' = r.rx
             /\ ret' = Ret("tt1", r.out, r.val)
             /\ arg' = [arg EXCEPT !.chip = Chip("ok", <<>>, <<ans>>)]
    /\ pc' = "returned"
    /\ UNCHANGED <<ttype, mifreg, transport_baudrate, chipBaud>>

ListenTargets == {"106A", "106B", "212F"}

ListenTimeouts == {0, 1}

\* The discovery and listen routines of the base layer (_sense_tta,
\* _sense_ttb, _sense_ttf, _sense_dep, _listen_dep) are not part of this
\* file.  BaseCall stands on the wire for the commands such a routine sends;
\* it ends by returning a target, by returning None or with an error of the
\* chipset.
BaseCall == [k |-> "base", op |-> 0, data |-> <<>>]

BaseResults == {"target", "None", "ChipsetError"}

SenseTargets == {"106A", "106B", "212F", "424F"}

\* A method that hands its call to the routine `callee` of the base layer
\* with the arguments `args` and returns what the routine returns; an error
\* of the routine leaves the method as it is.
delegate(name, callee, args) ==
    /\ pc = "ready"
    /\ arg' = [op |-> name, callee |-> callee, args |-> args]
    /\ wire' = Written(<<BaseCall>>)
    /\ \E result \in BaseResults :
          ret' = IF result = "ChipsetError" THEN Ret(name, "ChipsetError", <<>>)
                 ELSE Ret(name, "ok", <<result>>)
    /\ pc' = "returned"
    /\ UNCHANGED <<ttype, mifreg, transport_baudrate, chipBaud, ciu, rx>>

\* Lines 200-207.
sense_tta ==
    \E target \in SenseTargets :
        delegate("sense_tta", "_sense_tta", [target |-> target])

\* Lines 209-220: bit rate type 3 and DID 01.
sense_ttb ==
    \E target \in SenseTargets :
        delegate("sense_ttb", "_sense_ttb", [target |-> target, brty |-> 3, did |-> <<1>>])

\* Lines 222-230.
sense_ttf ==
    \E target \in SenseTargets :
        delegate("sense_ttf", "_sense_ttf", [target |-> target])

\* Lines 232-240: passive_target is None unless the caller supplies one.
sense_dep ==
    \E target \in SenseTargets, passive_target \in {"None", "106A", "212F"} :
        delegate("sense_dep", "_sense_dep",
                 [target |-> target, passive_target |-> passive_target])

\* Lines 344-351.
listen_dep ==
    \E target \in SenseTargets, timeout \in ListenTimeouts :
        delegate("listen_dep", "_listen_dep", [target |-> target, timeout |-> timeout])

\* Lines 353-356, called by the base layer's listen routine: the first 8
\* bytes of ttf_params and two zero bytes are the NFCID3; no general and no
\* historical bytes.
device_init_as_target ==
    /\ pc = "ready"
    /\ \E mode \in {0, 2, 5}, nm \in {5, 6}, ttf_params \in TtfParams, reply \in Replies :
          \E rsp \in (IF reply = "ok" THEN TargetAnswers ELSE {<<>>}) :
             LET nfcid3t == Slice(ttf_params, 0, 8) \o <<0, 0>>
                 r == tg_init_as_target(TRUE, mode, Zeros(nm), ttf_params, nfcid3t,
                                        <<>>, <<>>, reply, rsp)
             IN  /\ wire' = Written(r.frames)
                 /\ arg' = [op |-> "_init_as_target", mode |-> mode,
                            tta_params |-> Zeros(nm), ttf_params |-> ttf_params,
                            reply |-> reply, rsp |-> rsp]
                 /\ ret' = Ret("_init_as_target", r.out, r.val)
    /\ pc' = "returned"
    /\ UNCHANGED <<ttype, mifreg, transport_baudrate, chipBaud, ciu, rx>>

\* Lines 276-278.
tt1_native_exchange ==
    /\ pc = "ready"
    /\ \E data \in NativeCommands, reply \in Replies, rsp \in {<<>>, <<8, 90>>} :
          Exchange(data, 100, Chip(reply, IF reply = "ok" THEN rsp ELSE <<>>, <<>>))

\* Lines 280-289.
tt1_segment_exchange ==
    /\ pc = "ready"
    /\ \E data \in SegmentCommands, good \in 0..16, bad \in BadAnswers :
          \E chip \in {Chip("ok", <<>>, SegmentAnswers(data[2] \div 16, good, bad))} :
             Exchange(data, 100, chip)

\* A listen method that first switches the field off through the chipset.
listen_unsupported_after_mute(name) ==
    /\ pc = "ready"
    /\ \E target \in ListenTargets, timeout \in ListenTimeouts :
          arg' = [op |-> name, target |-> target, timeout |-> timeout]
    /\ wire' = Written(<<Cmd(50, <<1, 2>>)>>)
    /\ ret' = Ret(name, "NotImplementedError", <<>>)
    /\ pc' = "returned"
    /\ UNCHANGED <<ttype, mifreg, transport_baudrate, chipBaud, ciu, rx>>

\* Lines 329-342: the three methods only build a message and raise.
listen_unsupported(name) ==
    /\ pc = "ready"
    /\ \E target \in ListenTargets, timeout \in ListenTimeouts :
          arg' = [op |-> name, target |-> target, timeout |-> timeout]
    /\ wire' = <<>>
    /\ ret' = Ret(name, "NotImplementedError", <<>>)
    /\ pc' = "returned"
    /\ UNCHANGED <<ttype, mifreg, transport_baudrate, chipBaud, ciu, rx>>

listen_tta == listen_unsupported("listen_tta")

listen_ttb == listen_unsupported("listen_ttb")

listen_ttf == listen_unsupported("listen_ttf")

\* Lines 242-271, called on a constructed device.
device_old_sense_dep ==
    /\ pc = "ready"
    /\ \E has_remote \in BOOLEAN, br \in {106, 212}, self_bitrate \in {106, 212},
          mute_reply \in Replies :
          \E reply \in (IF has_remote THEN SenseDepReplies ELSE {"ok", "ChipsetError"}) :
          \E rsp \in (IF reply = "ok" THEN SenseDepAnswers(has_remote, br) ELSE {<<>>}) :
             LET r == old_sense_dep(has_remote, br, self_bitrate, AtrReq, reply, rsp,
                                    IF reply = "ok" THEN "ok" ELSE mute_reply)
             IN  /\ wire' = Written(r.frames)
                 /\ arg' = [op |-> "old_sense_dep", has_remote |-> has_remote, br |-> br,
                            reply |-> reply, rsp |-> rsp,
                            mute_reply |-> IF reply = "ok" THEN "ok" ELSE mute_reply]
                 /\ ret' = Ret("old_sense_dep", r.out, r.val)
    /\ pc' = "returned"
    /\ UNCHANGED <<ttype, mifreg, transport_baudrate, chipBaud, ciu, rx>>

Next ==
    \/ init
    \/ init_get_firmware_version
    \/ init_read_register
    \/ init_set_serial_baudrate
    \/ init_transport_baudrate
    \/ init_configure
    \/ Return
    \/ close_read_register
    \/ close_set_serial_baudrate
    \/ close_transport_baudrate
    \/ close_power_down
    \/ listen_tta
    \/ listen_ttb
    \/ listen_ttf

Spec == Init /\ [][Next]_vars

(***************************************************************************)
(* Type 1 Tag exchanges on a device constructed over a serial transport,   *)
(* after the rate change of Device.__init__.                               *)
(***************************************************************************)
InitTT1 ==
    /\ pc = "ready"
    /\ ttype = "TTY"
    /\ mifreg = 4
    /\ transport_baudrate = HighBaudrate
    /\ chipBaud = HighBaudrate
    /\ ciu = CiuReset
    /\ wire = <<>>
    /\ arg = NoArg
    /\ rx = <<>>
    /\ ret = Idle

NextTT1 ==
    \/ tt1_register_level_exchange
    \/ tt1_time_sleep
    \/ tt1_native_exchange
    \/ tt1_segment_exchange
    \/ device_old_sense_dep
    \/ device_init_as_target
    \/ sense_tta
    \/ sense_ttb
    \/ sense_ttf
    \/ sense_dep
    \/ listen_dep
    \/ listen_tta
    \/ listen_ttb
    \/ listen_ttf
    \/ Return

SpecTT1 == InitTT1 /\ [][NextTT1]_vars

(***************************************************************************)
(* The chipset methods called on their own, on a chipset whose transport   *)
(* is open: each call is applied to arguments and an answer of the chip.   *)
(***************************************************************************)
InitChipset ==
    /\ pc = "chipset"
    /\ ttype = "TTY"
    /\ mifreg = 4
    /\ transport_baudrate = DefaultBaudrate
    /\ chipBaud = DefaultBaudrate
    /\ ciu = CiuReset
    /\ wire = <<>>
    /\ arg = NoArg
    /\ rx = <<>>
    /\ ret = Idle

chipset_set_serial_baudrate ==
    /\ pc = "chipset"
    /\ \E baudrate \in BaudInputs, reply \in Replies :
          LET r == set_serial_baudrate(baudrate, reply)
          IN  /\ wire' = Written(r.frames)
              /\ chipBaud' = IF r.out = "ok" THEN baudrate ELSE chipBaud
              /\ arg' = [op |-> "set_serial_baudrate", baudrate |-> baudrate]
              /\ ret' = Ret("set_serial_baudrate", r.out, r.val)
    /\ pc' = "chipset_returned"
    /\ UNCHANGED <<ttype, mifreg, transport_baudrate, ciu, rx>>

chipset_power_down ==
    /\ pc = "chipset"
    /\ \E wakeup_enable \in WakeupInputs, generate_irq \in BOOLEAN,
          reply \in Replies, status \in {0, 39} :
          LET r == power_down(wakeup_enable, generate_irq, reply, <<status>>)
          IN  /\ wire' = Written(r.frames)
              /\ arg' = [op |-> "power_down", wakeup_enable |-> wakeup_enable,
                         generate_irq |-> generate_irq]
              /\ ret' = Ret("power_down", r.out, r.val)
    /\ pc' = "chipset_returned"
    /\ UNCHANGED <<ttype, mifreg, transport_baudrate, chipBaud, ciu, rx>>

chipset_in_auto_poll ==
    /\ pc = "chipset"
    /\ \E poll_nr \in {1, 255}, period \in {1}, types \in PollTypes,
          reply \in Replies, data \in PollReplies :
          LET r == in_auto_poll(poll_nr, period, types, reply,
                                IF reply = "ok" THEN data ELSE <<>>)
          IN  /\ wire' = Written(r.frames)
              /\ arg' = [op |-> "in_auto_poll", poll_nr |-> poll_nr, period |-> period,
                         types |-> types, reply |-> reply,
                         data |-> IF reply = "ok" THEN data ELSE <<>>]
              /\ ret' = Ret("in_auto_poll", r.out, r.val)
    /\ pc' = "chipset_returned"
    /\ UNCHANGED <<ttype, mifreg, transport_baudrate, chipBaud, ciu, rx>>

chipset_tg_init_as_target ==
    /\ pc = "chipset"
    /\ \E mode_is_int \in BOOLEAN, mode \in ModeInputs, nm \in {5, 6, 7},
          nf \in {17, 18, 19}, nn \in {9, 10, 11}, gb \in {<<>>, <<70, 102>>},
          reply \in Replies :
          \E rsp \in (IF reply = "ok" THEN TargetAnswers ELSE {<<>>}) :
          LET r == tg_init_as_target(mode_is_int, mode, Zeros(nm), Zeros(nf), Zeros(nn),
                                     gb, <<>>, reply, rsp)
          IN  /\ wire' = Written(r.frames)
              /\ arg' = [op |-> "tg_init_as_target", mode_is_int |-> mode_is_int,
                         mode |-> mode, mifare_params |-> Zeros(nm),
                         felica_params |-> Zeros(nf), nfcid3t |-> Zeros(nn),
                         general_bytes |-> gb, historical_bytes |-> <<>>,
                         reply |-> reply, rsp |-> rsp]
              /\ ret' = Ret("tg_init_as_target", r.out, r.val)
    /\ pc' = "chipset_returned"
    /\ UNCHANGED <<ttype, mifreg, transport_baudrate, chipBaud, ciu, rx>>

\* The caller takes the result.  No method of class Chipset assigns the
\* transport's rate: after an acknowledged rate change the transport stays
\* at the rate it had and the chip runs at the new one.
chipset_return ==
    /\ pc = "chipset_returned"
    /\ pc' = "chipset"
    /\ wire' = <<>>
    /\ arg' = NoArg
    /\ rx' = <<>>
    /\ ret' = Idle
    /\ UNCHANGED <<ttype, mifreg, transport_baudrate, chipBaud, ciu>>

NextChipset ==
    \/ chipset_set_serial_baudrate
    \/ chipset_power_down
    \/ chipset_in_auto_poll
    \/ chipset_tg_init_as_target
    \/ chipset_return

SpecChipset == InitChipset /\ [][NextChipset]_vars

(***************************************************************************)
(* Properties.                                                             *)
(***************************************************************************)
\* A finished call of the register-level exchange.
RegisterLevelCall ==
    /\ pc = "returned"
    /\ ret.op = "tt1"
    /\ arg.data[1] \notin {0, 1, 26, 83, 114, 16}

\* The rates of the SetSerialBaudrate table as the specification lists them.
ClaimRates == <<9600, 19200, 38400, 57600, 115200, 230400, 460800, 921600, 1288000>>

\* C1: in Device construction and in close(), the local transport rate
\* changes only right after a SetSerialBaudrate command (opcode 0x10) that
\* the chip answered with success and the ACK frame written after it, and
\* then to the rate that command named; after a failed command it stays as
\* it was.  Every command and ACK frame is written at the rate the chip is
\* running at when it is written.
C1_ChipFirstLocalSecond ==
    \A i \in 1..Len(wire) :
        /\ wire[i].k \in {"cmd", "ack"} => wire[i].rate = wire[i].chip
        /\ LET after == IF i < Len(wire) THEN wire[i + 1].rate ELSE transport_baudrate
           IN  after # wire[i].rate =>
                  /\ i >= 2
                  /\ wire[i].k = "ack"
                  /\ wire[i - 1].k = "cmd"
                  /\ wire[i - 1].op = 16
                  /\ after = ClaimRates[wire[i - 1].data[1] + 1]

\* C1 witness: construction has switched the local side to 921600 after the
\* ACK that it wrote at the old rate.
C1_Witness ==
    /\ pc = "sam_configuration"
    /\ transport_baudrate = 921600
    /\ chipBaud = 921600
    /\ Len(wire) >= 2
    /\ wire[Len(wire)].k = "ack"
    /\ wire[Len(wire)].rate = 115200
    /\ wire[Len(wire) - 1].op = 16

\* C2: set_serial_baudrate(rate) sends, for a rate of the table, opcode 0x10
\* with the one byte that is the rate's 0-based table index (7 for 921600),
\* and the table at that index is the rate; for any other rate it fails and
\* writes no frame at all.
C2_BaudrateIndex ==
    ret.op = "set_serial_baudrate" =>
        IF arg.baudrate \in Range(ClaimRates)
        THEN /\ Len(wire) >= 1
             /\ wire[1].k = "cmd"
             /\ wire[1].op = 16
             /\ Len(wire[1].data) = 1
             /\ wire[1].data[1] \in 0..8
             /\ ClaimRates[wire[1].data[1] + 1] = arg.baudrate
             /\ (arg.baudrate = 921600 => wire[1].data[1] = 7)
             /\ \A i \in 2..Len(wire) : wire[i].k = "ack"
        ELSE /\ wire = <<>>
             /\ ret.out = "ValueError"

\* C2 witness: the request for 921600 was sent and acknowledged.
C2_Witness ==
    /\ ret.op = "set_serial_baudrate"
    /\ arg.baudrate = 921600
    /\ ret.out = "ok"
    /\ Len(wire) = 2

\* C3: in the register-level Type 1 Tag exchange, a CIU_FIFOLevel read that
\* returns 0 ends the call with TimeoutError: no result, and no read of
\* CIU_FIFOData is issued.
C3_EmptyFifoIsTimeout ==
    (/\ RegisterLevelCall
     /\ arg.chip.answers[1].fail \notin {1, 2, 3}
     /\ arg.chip.answers[1].fifo = <<>>)
    => /\ ret.out = "TimeoutError"
       /\ ret.val = <<>>
       /\ \A i \in 1..Len(wire) :
             ~(wire[i].op = 6 /\ "CIU_FIFOData" \in Range(wire[i].data))

\* C3 witness: a READ8 whose FIFO level read returned 0.
C3_Witness ==
    /\ RegisterLevelCall
    /\ arg.data[1] = 2
    /\ arg.chip.answers[1].fail = 0
    /\ arg.chip.answers[1].fifo = <<>>
    /\ ret.out = "TimeoutError"
    /\ Len(wire) = 3

\* The data bytes a FIFO content stands for: bit n of the stream is bit
\* n mod 8 of FIFO byte n div 8, and byte k is made of the first 8 bits of
\* the k-th complete group of 9.
StreamBit(fifo, n) == Bit(fifo[(n \div 8) + 1], n % 8)

ClaimBytes(fifo) ==
    [k \in 1..((8 * Len(fifo)) \div 9) |->
        StreamBit(fifo, 9*k - 9) + 2 * StreamBit(fifo, 9*k - 8)
        + 4 * StreamBit(fifo, 9*k - 7) + 8 * StreamBit(fifo, 9*k - 6)
        + 16 * StreamBit(fifo, 9*k - 5) + 32 * StreamBit(fifo, 9*k - 4)
        + 64 * StreamBit(fifo, 9*k - 3) + 128 * StreamBit(fifo, 9*k - 2)]

ClaimChecksumValid(bytes) ==
    /\ Len(bytes) >= 2
    /\ add_crc_b(SubSeq(bytes, 1, Len(bytes) - 2)) = bytes

\* C4: in the register-level exchange, for every received FIFO content: if
\* the last two reconstructed bytes are not the valid checksum of the bytes
\* before them the call ends with TransmissionError and no data, and if they
\* are the result is the reconstructed bytes without the last two.
C4_ChecksumDecides ==
    (/\ RegisterLevelCall
     /\ arg.chip.answers[1].fail = 0
     /\ arg.chip.answers[1].fifo # <<>>)
    => IF ClaimChecksumValid(ClaimBytes(arg.chip.answers[1].fifo))
       THEN /\ ret.out = "ok"
            /\ ret.val = SubSeq(ClaimBytes(arg.chip.answers[1].fifo), 1,
                                Len(ClaimBytes(arg.chip.answers[1].fifo)) - 2)
       ELSE /\ ret.out = "TransmissionError"
            /\ ret.val = <<>>

\* C5: when the FIFO holds a payload of n >= 1 bytes sent as 9 bits per byte
\* (8 data bits least significant first, then a parity bit), packed least
\* significant bit first and zero padded, lines 323-324 yield exactly the n
\* payload bytes, whatever the parity bits are.
C5_RoundTrip ==
    (/\ RegisterLevelCall
     /\ arg.chip.answers[1].fail = 0
     /\ arg.chip.answers[1].parity \in ParityModes
     /\ Len(arg.chip.answers[1].sent) >= 1
     /\ arg.chip.answers[1].fifo =
            Pack9(arg.chip.answers[1].sent, arg.chip.answers[1].parity))
    => rx = arg.chip.answers[1].sent

\* C5 witness: two data bytes and their checksum, all parity bits 1, came
\* back as sent.
C5_Witness ==
    /\ RegisterLevelCall
    /\ arg.chip.answers[1].parity = "one"
    /\ Len(arg.chip.answers[1].sent) = 4
    /\ arg.chip.answers[1].sent[1] = 90
    /\ rx = arg.chip.answers[1].sent
    /\ ret.out = "ok"
    /\ ret.val = <<90, arg.chip.answers[1].sent[2]>>

\* The wakeup sources in the order the specification lists them.
ClaimSources == <<"INT0", "INT1", "rfu", "RF", "HSU", "SPI", "GPIO", "I2C">>

\* C6: power_down(wakeup_enable) sends opcode 0x16 with a first payload byte
\* whose bit i is set exactly when the i-th source of the list is among the
\* supplied names, in whatever order and however often they are supplied;
\* the number of set bits is the number of distinct names.
C6_WakeupMask ==
    ret.op = "power_down" =>
        /\ Len(wire) = 1
        /\ wire[1].op = 22
        /\ wire[1].data[1] \in 0..255
        /\ \A i \in 0..7 :
              (Bit(wire[1].data[1], i) = 1) <=> (ClaimSources[i + 1] \in Range(arg.wakeup_enable))
        /\ PopCount(wire[1].data[1]) = Cardinality(Range(arg.wakeup_enable))

\* C6 witness: the sources of Device.close in their order there give 0xB0.
C6_Witness ==
    /\ ret.op = "power_down"
    /\ arg.wakeup_enable = <<"I2C", "SPI", "HSU">>
    /\ wire[1].data[1] = 176

\* C7: tg_init_as_target sends a TgInitAsTarget request (opcode 0x8C) only
\* if mode is an int with bits 3..7 clear, mifare_params has 6 bytes,
\* felica_params 18 and nfcid3t 10; otherwise the call fails with nothing
\* written.
C7_TargetParamsChecked ==
    ret.op = "tg_init_as_target" =>
        LET valid == /\ arg.mode_is_int
                     /\ \A b \in 3..7 : Bit(arg.mode, b) = 0
                     /\ Len(arg.mifare_params) = 6
                     /\ Len(arg.felica_params) = 18
                     /\ Len(arg.nfcid3t) = 10
        IN  /\ (\E i \in 1..Len(wire) : wire[i].op = 140) => valid
            /\ ~valid => (wire = <<>> /\ ret.out = "AssertionError")

\* C7 witness: a 17 byte felica_params with everything else right was
\* rejected.
C7_Witness ==
    /\ ret.op = "tg_init_as_target"
    /\ arg.mode_is_int
    /\ arg.mode = 5
    /\ Len(arg.mifare_params) = 6
    /\ Len(arg.felica_params) = 17
    /\ Len(arg.nfcid3t) = 10
    /\ ret.out = "AssertionError"
    /\ wire = <<>>

\* An InAutoPoll reply read as the specification describes it: k triples
\* (type, length, data) from `data` on.  how is "ok" when the triples are
\* all there, "short" when the reply ends before them.
RECURSIVE ClaimTriples(_, _, _)
ClaimTriples(k, data, targets) ==
    IF k = 0 THEN [how |-> "ok", val |-> targets, rest |-> data]
    ELSE IF Len(data) < 2 \/ Len(data) < 2 + data[2]
         THEN [how |-> "short", val |-> targets, rest |-> data]
    ELSE ClaimTriples(k - 1, SubSeq(data, 3 + data[2], Len(data)),
                      Append(targets, <<data[1], SubSeq(data, 3, 2 + data[2])>>))

ClaimPoll(data) == ClaimTriples(data[1], Tail(data), <<>>)

PollAnswered ==
    /\ ret.op = "in_auto_poll"
    /\ Len(arg.types) <= 15
    /\ arg.reply = "ok"
    /\ Len(arg.data) >= 1

\* C8: for a well-formed InAutoPoll reply (a count n and n triples of type,
\* length L and L data bytes) in_auto_poll returns the n (type, data) pairs
\* in order, each data the L bytes after its length byte, each triple
\* starting where the one before ended.
C8_AutoPollDecodes ==
    (/\ PollAnswered
     /\ ClaimPoll(arg.data).how = "ok"
     /\ ClaimPoll(arg.data).rest = <<>>)
    => /\ ret.out = "ok"
       /\ ret.val = ClaimPoll(arg.data).val

\* C9: when an InAutoPoll reply declares a count and lengths that need more
\* bytes than it has, in_auto_poll fails, the same way whenever it gets that
\* reply, and returns no target list.
C9_TruncatedPollFails ==
    (/\ PollAnswered
     /\ ClaimPoll(arg.data).how = "short")
    => /\ ret.out \in {"TypeError", "IndexError"}
       /\ ret.out = (IF arg.data = <<>> THEN "IndexError" ELSE "TypeError")
       /\ ret.val = <<>>

\* C9 witness: one entry declared with two data bytes, one present.
C9_Witness ==
    /\ PollAnswered
    /\ arg.data = <<1, 0, 2, 1>>
    /\ ret.out = "TypeError"
    /\ Len(wire) = 1

ListenOps == {"listen_tta", "listen_ttb", "listen_ttf"}

\* C10: a call of listen_tta, listen_ttb or listen_ttf ends at once with
\* NotImplementedError (the unsupported-operation error), writes nothing to
\* the transport and leaves the transport rate, the chip's rate and the
\* chip's registers as they were.
C10_ListenUnsupported ==
    [][(pc = "ready" /\ ret'.op \in ListenOps)
        => /\ ret'.out = "NotImplementedError"
           /\ pc' = "returned"
           /\ wire' = <<>>
           /\ UNCHANGED <<transport_baudrate, chipBaud, ciu, mifreg, ttype>>]_vars

\* C10 witness: listen_tta was refused on a device running at 921600.
C10_Witness ==
    /\ ret.op = "listen_tta"
    /\ ret.out = "NotImplementedError"
    /\ transport_baudrate = 921600
    /\ wire = <<>>

Tt1Errors == {"ChipsetError", "TimeoutError", "TransmissionError"}

\* A command or exchange issued for the finished call was answered with a
\* failure, as the call's arguments record it.
CommandFailed ==
    \/ /\ ret.op = "old_sense_dep"
       /\ arg.reply # "ok"
    \/ /\ ret.op = "tt1"
       /\ arg.data[1] \in {0, 1, 26, 83, 114}
       /\ arg.chip.reply = "err"
    \/ /\ RegisterLevelCall
       /\ \/ arg.chip.answers[1].fail # 0
          \/ arg.chip.answers[1].fifo = <<>>
    \/ /\ ret.op = "tt1"
       /\ arg.data[1] = 16
       /\ arg.chip.answers[16].sent = <<>>

\* How often the first frame of the call was written during the call.
FirstFrameCount == Cardinality({i \in 1..Len(wire) : wire[i] = wire[1]})

\* C11 as stated: no operation swallows or retries a failure: whenever a
\* chipset command or data exchange issued for an operation fails, the
\* operation ends by raising the failure, never returns normally and never
\* issues the failed command again.
C11_NoFailureSwallowed ==
    CommandFailed => /\ ret.out # "ok"
                     /\ FirstFrameCount = 1

\* C11 amended: _tt1_send_cmd_recv_rsp raises every failure of a command it
\* issues (ChipsetError, TimeoutError on an empty FIFO, also from a block
\* read of RSEG) and no operation issues a failed command again; old_sense_dep
\* is the exception to raising: when its exchange or its InJumpForDEP fails
\* it switches the field off (mute) and returns None, and only a failure of
\* mute itself is raised.
C11_FailuresRaisedExceptSenseDep ==
    CommandFailed =>
        /\ FirstFrameCount = 1
        /\ ret.op = "tt1" => (ret.out \in Tt1Errors /\ ret.val = <<>>)
        /\ ret.op = "old_sense_dep" =>
              /\ Len(wire) = 2
              /\ wire[1].k = (IF arg.has_remote THEN "exchange" ELSE "cmd")
              /\ wire[1].op = (IF arg.has_remote THEN 0 ELSE 86)
              /\ wire[2].op = 50
              /\ wire[2].data = <<1, 2>>
              /\ IF arg.mute_reply = "ok"
                 THEN ret.out = "ok" /\ ret.val = <<"None">>
                 ELSE ret.out = "ChipsetError"

\* C11 witness: the exchange of old_sense_dep timed out, the field was
\* switched off and the call returned None.
C11_Witness ==
    /\ ret.op = "old_sense_dep"
    /\ arg.has_remote
    /\ arg.reply = "TimeoutError"
    /\ ret.out = "ok"
    /\ ret.val = <<"None">>
    /\ Len(wire) = 2

\* A written frame as the claims name it: its kind, its opcode and, for
\* SAMConfiguration and RFConfiguration, the mode or the configuration item.
StepOf(f) == <<f.k, f.op, IF f.op \in {20, 50} THEN f.data[1] ELSE 0>>

StepsOf(frames) == [i \in 1..Len(frames) |-> StepOf(frames[i])]

NotWakeup(f) == f.k # "raw"

IsPrefix(s, t) == Len(s) <= Len(t) /\ s = SubSeq(t, 1, Len(s))

\* The chip reports the high speed UART interface.
ClaimHsu == BitAnd(mifreg, 47) = 4

\* The steps of Device construction in the order the specification gives.
ClaimConstruction ==
    <<<<"cmd", 2, 0>>, <<"cmd", 6, 0>>>>
    \o (IF ClaimHsu THEN <<<<"cmd", 16, 0>>, <<"ack", 0, 0>>>> ELSE <<>>)
    \o <<<<"cmd", 20, 1>>, <<"cmd", 18, 0>>, <<"cmd", 50, 2>>, <<"cmd", 50, 4>>,
         <<"cmd", 50, 5>>, <<"cmd", 50, 12>>, <<"cmd", 50, 1>>>>

\* C12: Device construction issues firmware-version query, interface
\* register read, (baud-rate negotiation), SAM configuration to normal mode,
\* SetParameters, RF configuration 0x02, 0x04, 0x05, 0x0C and mute in this
\* order; a constructed Device has had mute as its last operation; when a
\* step fails construction fails with the error and no later step is issued.
C12_ConstructionOrder ==
    [][/\ arg'.op = "init" =>
             /\ IsPrefix(StepsOf(SelectSeq(wire', NotWakeup)), ClaimConstruction)
             /\ (pc' = "returned" /\ ret'.out = "ok") =>
                   /\ StepsOf(SelectSeq(wire', NotWakeup)) = ClaimConstruction
                   /\ wire'[Len(wire')].data = <<1, 2>>
             /\ pc' = "failed" => ret'.out = "ChipsetError"
             /\ pc' \in {"returned", "failed"} \/ ret'.out = "running"
       /\ pc = "failed" => (wire' = wire \/ pc' = "get_firmware_version")]_vars

\* C12 witness: a Device constructed over high speed UART; mute was the
\* eleventh and last command frame.
C12_Witness ==
    /\ pc = "returned"
    /\ ret.op = "init"
    /\ ret.out = "ok"
    /\ ClaimHsu
    /\ Len(SelectSeq(wire, NotWakeup)) = 11
    /\ wire[Len(wire)].op = 50
    /\ wire[Len(wire)].data = <<1, 2>>

\* The steps of close in the order the specification gives.
ClaimClose ==
    <<<<"cmd", 6, 0>>>>
    \o (IF ClaimHsu THEN <<<<"cmd", 16, 0>>, <<"ack", 0, 0>>>> ELSE <<>>)
    \o <<<<"cmd", 22, 0>>>>

\* C13: close() on a chip that reports high speed UART renegotiates 115200
\* on the chip, then on the local transport, and only then issues PowerDown;
\* PowerDown is the last command of a successful close, issued once, with
\* exactly the bits 4, 5 and 7 (HSU, SPI, I2C) in its mask and the interrupt
\* flag 0.  On any other chip close changes no rate and issues only the
\* register read and PowerDown.
C13_CloseOrder ==
    arg.op = "close" =>
        /\ IsPrefix(StepsOf(wire), ClaimClose)
        /\ pc = "closed" => (StepsOf(wire) = ClaimClose /\ ret.out = "ok")
        /\ \A i \in 1..Len(wire) :
              /\ wire[i].op = 16 => wire[i].data = <<4>>
              /\ wire[i].op = 22 =>
                    /\ i = Len(wire)
                    /\ Len(wire[i].data) = 2
                    /\ \A b \in 0..7 : (Bit(wire[i].data[1], b) = 1) <=> (b \in {4, 5, 7})
                    /\ wire[i].data[2] = 0
                    /\ ClaimHsu => /\ wire[i].rate = 115200
                                   /\ wire[i].chip = 115200
                                   /\ transport_baudrate = 115200
              /\ ~ClaimHsu => wire[i].rate = wire[1].rate
        /\ (~ClaimHsu /\ Len(wire) >= 1) => transport_baudrate = wire[1].rate

\* C13 witness: a device running at 921600 was closed; PowerDown went out
\* at 115200 as the fourth frame.
C13_Witness ==
    /\ arg.op = "close"
    /\ pc = "closed"
    /\ Len(wire) = 4
    /\ wire[1].rate = 921600
    /\ wire[4].op = 22
    /\ wire[4].rate = 115200
    /\ wire[4].data = <<176, 0>>

Negotiated(w) == \E i \in 1..Len(w) : w[i].op = 16

\* C14 as stated: construction negotiates the baud rate only over a
\* UART-class transport whose chip reports high speed UART; over any other
\* transport no SetSerialBaudrate is sent and the transport's rate is never
\* assigned, whatever the interface register reads.
C14_NegotiationNeedsUart ==
    [][arg'.op = "init" =>
          /\ Negotiated(wire') => (ttype = "TTY" /\ ClaimHsu)
          /\ ttype # "TTY" => (~Negotiated(wire') /\ transport_baudrate' = transport_baudrate)]_vars

\* C14 amended: construction negotiates the baud rate exactly when the
\* chip's interface register reports high speed UART, whatever the type of
\* the transport: then SetSerialBaudrate(921600) is sent and, once it has
\* succeeded, the transport's rate is set to 921600; otherwise no
\* SetSerialBaudrate is sent and the rate is not assigned.  The transport's
\* type decides only whether init writes the wakeup bytes first.
C14_NegotiationFollowsRegister ==
    [][arg'.op = "init" =>
          /\ Negotiated(wire') => ClaimHsu
          /\ transport_baudrate' # transport_baudrate =>
                (ClaimHsu /\ Negotiated(wire') /\ transport_baudrate' = 921600)
          /\ pc' = "init_transport_baudrate" => Negotiated(wire')
          /\ pc' = "sam_configuration" =>
                (ClaimHsu <=> (Negotiated(wire') /\ transport_baudrate' = 921600))
          /\ Len(wire') >= 1 => ((wire'[1].k = "raw") <=> (ttype = "TTY"))]_vars

\* C14 witness: over a USB transport whose chip reports high speed UART the
\* rate was negotiated and the transport's rate assigned.
C14_Witness ==
    /\ arg.op = "init"
    /\ ttype = "USB"
    /\ pc = "sam_configuration"
    /\ Negotiated(wire)
    /\ transport_baudrate = 921600

\* Step 6 of the specification: each received byte as 8 binary digits (most
\* significant first when natural, least significant first otherwise), the
\* digits concatenated, cut into consecutive runs of 9, each run reversed and
\* the low 8 bits of the reversed run taken as one data byte.
ClaimDigits(octet, natural) ==
    [i \in 1..8 |-> IF natural THEN Bit(octet, 8 - i) ELSE Bit(octet, i - 1)]

ClaimStep6(fifo, natural) ==
    LET digits == [n \in 1..(8 * Len(fifo)) |->
                     ClaimDigits(fifo[((n - 1) \div 8) + 1], natural)[((n - 1) % 8) + 1]]
        run(k) == [i \in 1..9 |-> digits[9 * (k - 1) + i]]
        reversed(k) == [i \in 1..9 |-> run(k)[10 - i]]
        value(k) == 256 * reversed(k)[1] + 128 * reversed(k)[2] + 64 * reversed(k)[3]
                    + 32 * reversed(k)[4] + 16 * reversed(k)[5] + 8 * reversed(k)[6]
                    + 4 * reversed(k)[7] + 2 * reversed(k)[8] + reversed(k)[9]
    IN  [k \in 1..((8 * Len(fifo)) \div 9) |-> value(k) % 256]

Received ==
    /\ RegisterLevelCall
    /\ arg.chip.answers[1].fail = 0
    /\ arg.chip.answers[1].fifo # <<>>

\* C15 as stated: for every received FIFO byte sequence the bytes
\* reconstructed by lines 323-324 are those of step 6 with each received
\* byte expanded in natural, most significant bit first order.
C15_Step6NaturalOrder ==
    Received => rx = ClaimStep6(arg.chip.answers[1].fifo, TRUE)

\* C15 amended: for every received FIFO sequence of two or more bytes the
\* reconstructed bytes are those of step 6 with each received byte expanded
\* least significant bit first (its binary string reversed); a single
\* received byte is not reconstructed at all, the call ends with TypeError.
C15_Step6ReversedOrder ==
    Received => IF Len(arg.chip.answers[1].fifo) = 1
                THEN ret.out = "TypeError" /\ rx = <<>>
                ELSE /\ ret.out # "TypeError"
                     /\ rx = ClaimStep6(arg.chip.answers[1].fifo, FALSE)

\* C15 witness: the FIFO after a tag sent the byte 5A and its checksum gave
\* the three bytes sent, which differ from what the natural order would give.
C15_Witness ==
    /\ Received
    /\ arg.chip.answers[1].parity = "odd"
    /\ Len(arg.chip.answers[1].sent) = 3
    /\ arg.chip.answers[1].sent[1] = 90
    /\ rx = arg.chip.answers[1].sent
    /\ rx = ClaimStep6(arg.chip.answers[1].fifo, FALSE)
    /\ rx # ClaimStep6(arg.chip.answers[1].fifo, TRUE)

\* A call of the register-level exchange that has written its batch: it is
\* waiting (WRITE-E8, WRITE-NE8) or finished.
RegisterLevelStarted ==
    /\ ret.op = "tt1"
    /\ arg.data[1] \notin {0, 1, 26, 83, 114, 16}

\* The batch of register writes the specification gives for the command
\* bytes b (checksum appended).
RECURSIVE ClaimRemaining(_, _)
ClaimRemaining(b, i) ==
    IF i > Len(b) THEN <<>>
    ELSE <<<<"CIU_FIFOData", b[i]>>, <<"CIU_Command", 4>>, <<"CIU_Command", 7>>>>
         \o ClaimRemaining(b, i + 1)

ClaimTransmit(b) ==
    <<<<"CIU_FIFOData", b[1]>>, <<"CIU_BitFraming", 7>>, <<"CIU_Command", 4>>,
      <<"CIU_BitFraming", 0>>, <<"CIU_ManualRCV", 48>>>>
    \o ClaimRemaining(b, 2)
    \o <<<<"CIU_Command", 8>>>>

\* C16: the register-level exchange writes, in one batch and in this order,
\* FIFOData = first byte, BitFraming = 7 bits, Command = Transmit,
\* BitFraming = 8 bits, ManualRCV = parity disabled, then for each further
\* byte FIFOData = byte, Command = Transmit, Command = NoCmdChange, and last
\* Command = Receive.  Only the first byte goes out with 7-bit framing,
\* parity is disabled before any later byte is loaded, Receive is written
\* once and after every Transmit, and parity is enabled again after the
\* batch and before the FIFO level is read.
C16_TransmitSequence ==
    RegisterLevelStarted =>
        LET b == add_crc_b(arg.data)
            w == wire[1].data
        IN  /\ wire[1].op = 8
            /\ Len(b) = Len(arg.data) + 2
            /\ w = ClaimTransmit(b)
            /\ Len(w) = 3 * Len(b) + 3
            /\ \A i \in 1..Len(w) :
                  /\ w[i] = <<"CIU_BitFraming", 7>> <=> i = 2
                  /\ w[i] = <<"CIU_Command", 8>> <=> i = Len(w)
                  /\ w[i][1] = "CIU_ManualRCV" => (i = 5 /\ w[i][2] = 48)
                  /\ (w[i][1] = "CIU_FIFOData" /\ i > 1) => i > 5
            /\ Len(wire) >= 2 =>
                  /\ wire[2].op = 8
                  /\ wire[2].data = <<<<"CIU_ManualRCV", 32>>>>
            /\ \A j \in 1..Len(wire) : wire[j].op = 6 => j > 2

\* C16 witness: a WRITE-E8 of three bytes went out as a batch of 18 writes
\* and the FIFO level was read after parity was enabled again.
C16_Witness ==
    /\ RegisterLevelCall
    /\ arg.data = <<84, 1, 127>>
    /\ Len(wire[1].data) = 18
    /\ Len(wire) >= 3
    /\ wire[2].data = <<<<"CIU_ManualRCV", 32>>>>
    /\ wire[3].op = 6
    /\ wire[3].data = <<"CIU_FIFOLevel">>

\* The write batches of a call that load a command into the FIFO, and the
\* bytes such a batch loads.
IsTransmitBatch(f) == f.op = 8 /\ f.data[1][1] = "CIU_FIFOData"

IsFifoWrite(pair) == pair[1] = "CIU_FIFOData"

FifoBytes(f) ==
    [i \in 1..Len(SelectSeq(f.data, IsFifoWrite)) |-> SelectSeq(f.data, IsFifoWrite)[i][2]]

SegmentCall == ret.op = "tt1" /\ arg.data[1] = 16

\* The number of block reads answered by the tag before the first one that
\* fails (16: none fails), and the error of an answer that fails.
ClaimGood ==
    Cardinality({k \in 1..16 : \A j \in 1..k : arg.chip.answers[j].sent # <<>>})

ClaimBlockError(ans) ==
    IF ans.fail # 0 THEN "ChipsetError"
    ELSE IF ans.fifo = <<>> THEN "TimeoutError"
    ELSE "TransmissionError"

RECURSIVE ClaimSegmentData(_)
ClaimSegmentData(k) ==
    IF k = 0 THEN <<>>
    ELSE ClaimSegmentData(k - 1) \o SubSeq(arg.chip.answers[k].sent, 2, 9)

\* C17: a multi-segment read (code 0x10) of segment s, the high nibble of
\* the address byte, issues single-block reads (code 0x02) for the blocks
\* 16s, 16s+1, ... in ascending order, each with the bytes that followed the
\* address byte; with all 16 answered it returns the address byte and bytes
\* 1..8 of each block answer in block order (129 bytes); when a block read
\* fails the call fails with that error, reads no further block and returns
\* no data.
C17_SegmentRead ==
    SegmentCall =>
        LET s == arg.data[2] \div 16
            reads == SelectSeq(wire, IsTransmitBatch)
        IN  /\ Len(reads) = (IF ClaimGood = 16 THEN 16 ELSE ClaimGood + 1)
            /\ \A k \in 1..Len(reads) :
                  FifoBytes(reads[k]) =
                     add_crc_b(<<2, 16 * s + k - 1>> \o SubSeq(arg.data, 3, Len(arg.data)))
            /\ IF ClaimGood = 16
               THEN /\ ret.out = "ok"
                    /\ ret.val = <<arg.data[2]>> \o ClaimSegmentData(16)
                    /\ Len(ret.val) = 129
               ELSE /\ ret.out = ClaimBlockError(arg.chip.answers[ClaimGood + 1])
                    /\ ret.val = <<>>

\* C17 witness: segment 1 read with a trailing byte; 16 blocks from 16 to
\* 31 answered, 129 bytes returned.
C17_Witness ==
    /\ SegmentCall
    /\ arg.data = <<16, 16, 9>>
    /\ ret.out = "ok"
    /\ Len(ret.val) = 129
    /\ ret.val[1] = 16
    /\ Len(SelectSeq(wire, IsTransmitBatch)) = 16
    /\ FifoBytes(SelectSeq(wire, IsTransmitBatch)[16])[2] = 31

NativeCall == ret.op = "tt1" /\ arg.data[1] \in {0, 1, 26, 83, 114}

RegisterAccess(f) == f.op \in {6, 8}

DataExchange(f) == f.op = 64

\* C18 as stated: a command of the firmware-supported set is forwarded
\* through the data-exchange command and causes no register read or write,
\* and each of the 16 single-block reads of a multi-segment read is carried
\* out through the data-exchange command too, not through register-level
\* transmission.
C18_BlockReadsNative ==
    /\ NativeCall => /\ Len(wire) = 1
                     /\ DataExchange(wire[1])
    /\ SegmentCall => \A i \in 1..Len(wire) : DataExchange(wire[i]) /\ ~RegisterAccess(wire[i])

\* C18 amended: a command of the firmware-supported set (codes 0x00, 0x01,
\* 0x1A, 0x53, 0x72) is forwarded through the data-exchange command, once,
\* and causes no register read or write; each single-block read of a
\* multi-segment read is a READ8 (0x02), which is not in that set: it is
\* carried out through the register-level path (register writes and reads)
\* and never through the data-exchange command.
C18_BlockReadsRegisterLevel ==
    /\ NativeCall => /\ Len(wire) = 1
                     /\ DataExchange(wire[1])
    /\ SegmentCall => /\ Len(wire) >= 1
                      /\ \A i \in 1..Len(wire) : RegisterAccess(wire[i]) /\ ~DataExchange(wire[i])
                      /\ \A k \in 1..Len(SelectSeq(wire, IsTransmitBatch)) :
                            FifoBytes(SelectSeq(wire, IsTransmitBatch)[k])[1] = 2

\* C18 witness: a multi-segment read whose 16 block reads were all answered:
\* 64 register commands and no data exchange.
C18_Witness ==
    /\ SegmentCall
    /\ ret.out = "ok"
    /\ Len(wire) = 64
    /\ \A i \in 1..Len(wire) : RegisterAccess(wire[i])

\* C19: for n received FIFO bytes lines 323-324 produce floor(8n/9) bytes,
\* one per complete group of 9 bits, and drop the bits left over: 1
\* received byte gives 0 bytes, 2 give 1, 3 give 2; the reconstruction then
\* goes on to the checksum test, it does not fail by itself.
C19_Truncation ==
    Received =>
        LET n == Len(arg.chip.answers[1].fifo)
        IN  /\ ret.out \notin {"TypeError"}
            /\ Len(rx) = (8 * n) \div 9
            /\ 9 * Len(rx) <= 8 * n
            /\ n = 1 => rx = <<>>
            /\ n = 2 => Len(rx) = 1
            /\ n = 3 => Len(rx) = 2

\* C20: every exit of the register-level exchange that follows a
\* successfully issued transmit batch leaves CIU_ManualRCV last written with
\* 0x20 (parity enabled) and CIU_BitFraming with 0x00 (8 bits); between
\* operations the chip is never left with parity disabled or 7-bit framing.
C20_ParityRestored ==
    /\ (RegisterLevelCall /\ arg.chip.answers[1].fail # 1) =>
          /\ ciu.ManualRCV = 32
          /\ ciu.BitFraming = 0
    /\ pc \in {"ready", "returned"} =>
          /\ ciu.ManualRCV # 48
          /\ ciu.BitFraming # 7

====
